---------------------------- MODULE Spec2Model ----------------------------
(***************************************************************************)
(* A state-machine model of ppo_pytorch: the PPO agent's sample buffer and *)
(* training pass (ppo/ppo.py), the MPPO replay buffer and world-model      *)
(* training (ppo/mppo.py) and the population trainer                       *)
(* (common/multiplayer_env_trainer.py).                                    *)
(*                                                                         *)
(* The specifications sharing the module:                                  *)
(*   Spec        one PPO agent driven by _step / drop_collected_steps      *)
(*               calls, the training pass unfolded into its stages;        *)
(*   SpecRB      one ReplayBuffer driven by push / sample calls;           *)
(*   SpecMP      one MultiplayerEnvTrainer driven by step / train calls;   *)
(*   FairSpecMP  SpecMP with train's loop running on;                      *)
(*   SpecW       one MPPO agent driven by _ppo_update calls, the world     *)
(*               training unfolded into its phases;                        *)
(*   FairSpecW   SpecW with _ppo_update called again and again;            *)
(*   SpecG       _process_rewards applied to one actor's column;           *)
(*   SpecU       one PPO agent's model placement and minibatch slicing;    *)
(*   SpecSched   Spec with the learning-rate scheduler, and a smaller      *)
(*               choice of checkpoint settings.                            *)
(* Each specification leaves the state of the other parts untouched.       *)
(***************************************************************************)
EXTENDS Integers, Sequences, FiniteSets, TLC

(***************************************************************************)
(* Bounds of the model.                                                    *)
(***************************************************************************)
MaxHorizon == 2
MaxPpoIters == 2
MaxBatchSize == 3
MaxActors == 2
MaxSaveInterval == 2
MaxCalls == 6
MaxCapacity == 4
MaxPushLen == 4
MaxTotal == 5
MaxSampleHorizon == 3
MaxRollouts == 1
DecayFrames == 8
MaxPopulation == 2
MaxPlayers == 2
MaxSelectionFrames == 3
MaxFrames == 5
MaxWorldIters == 2
MaxWorldHorizon == 2
MaxReward == 1
MaxValue == 1
MaxRewardScale == 2
DiscountSteps == 2
MaxData == 4

VARIABLES
    \* ---- PPO configuration (constructor arguments, ppo.py:113-132) ----
    horizon, ppo_iters, batch_size, num_actors, model_save_interval,
    save_intermediate_models,
    \* ---- PPO agent state ----
    sample,                 \* Sample(states, rewards, dones, probs, values, actions)
    frame,                  \* RLBase.frame
    last_model_save_frame,  \* ppo.py:147
    pc,                     \* position of the agent inside _step / _train
    ppo_iter, loader_iter,  \* loop counters of _ppo_update
    \* ---- observation (history) variables of the PPO agent ----
    calls,                  \* number of _step calls made so far
    optSteps,               \* optimizer.step() calls of the current training pass
    saveCount,              \* torch.save calls so far
    nanSeen,                \* the total loss of the current minibatch is NaN/inf
    failed,                 \* some training pass raised
    dropped,                \* drop_collected_steps was called
    trainCalls,             \* the _step calls (by number) that triggered _train
    usedRewards,            \* the _step calls whose reward entered a TrainingData
    actionFresh,            \* no optimizer step since the last forward pass
                            \* of _step computed its actions
    \* ---- decay schedulers (ppo.py:144-146) and what they feed ----
    lr_scheduler,           \* None, or the scheduler's current value
    decaySteps,             \* step() calls received by each scheduler
    clip_decay,             \* None, or the scheduler's current value
    entropy_decay,          \* None, or the scheduler's current value
    lossCoef,               \* the coefficients the last _get_ppo_loss call used
    saves,                  \* the checkpoints written: frame and file name
    \* ---- ReplayBuffer state (mppo.py:97-104) ----
    capacity, rb_alloc, rb_arrays, rb_index, full_loop,
    \* ---- observation variables of the replay buffer ----
    rb_total,               \* time-steps written into the buffer so far
    rb_op,                  \* the last call and how it ended
    rb_batch,               \* what the last sample call returned
    \* ---- MultiplayerEnvTrainer (multiplayer_env_trainer.py:33-66) ----
    population_size, selection_train_frames, num_players,
    mp_status,              \* "ready", or "failed" when __init__ raised
    mp_frame,               \* MultiplayerEnvTrainer.frame
    selected_algs,          \* None, or the indexes of the selected agents
    selection_change_frame, \* None, or the frame of the last draw
    alg_samples,            \* rl_algs[i].sample
    alg_rewards,            \* the selection period of rl_algs[i].rewards
    mp_pc,                  \* position of the caller inside train
    max_frames,             \* argument of the current train call
    \* ---- observation variables of the trainer ----
    mp_entry,               \* frame at the entry of the current train call
    mp_logs,                \* always_log of the steps of the current train call
    mp_passes,              \* per training pass of the last step: the periods of its data
    mp_stale,               \* the last step appended a reward of another period
    mp_durations,           \* frames each ended selection was active
    \* ---- MPPO (mppo.py:165-194); its replay buffer is the one above ----
    world_train_iters, world_train_rollouts, world_train_horizon,
    constraint,             \* PPO's constraint argument: None or a string
    w_status,               \* "ready", or "failed" when __init__ raised
    w_pc,                   \* position inside MPPO._ppo_update / _train_world
    train_iter,             \* loop counter of _train_world
    \* ---- observation variables of MPPO ----
    w_trained,              \* the current _ppo_update called _train_world
    w_disc_grad,            \* the phases whose backward() the gradients of
    w_gen_grad,             \* world_disc / world_gen have accumulated
    w_optim_log,            \* the optimizer steps of the current _ppo_update
    w_unroll,               \* per unroll step of the current iteration: the
                            \* action given to the generator, given to the
                            \* discriminator, and stored
    \* ---- one actor's column handed to _process_rewards (ppo.py:282) ----
    g_rewards, g_values, g_dones,
    reward_discount,        \* gamma, in units of 1/DiscountSteps
    advantage_discount,     \* lambda, in units of 1/DiscountSteps
    reward_scale,
    g_pc,                   \* "new", "done" (processed), "changed" (processed
                            \* again after a value estimate was changed)
    g_out,                  \* what the last _process_rewards call computed
    g_prev,                 \* what the call before it computed
    g_changed,              \* the t whose V_{t+1} was changed, 0 if none
    \* ---- model placement and minibatches of PPO (ppo.py:158-160, 294-307) ----
    cuda_eval, cuda_train,  \* constructor arguments
    model_cuda,             \* next(self.model.parameters()).is_cuda
    u_pc,                   \* position inside _step / _ppo_update
    u_epoch, u_loader,      \* ppo_iter and loader_iter of _ppo_update
    rand_idx,               \* the permutation of the current epoch
    \* ---- observation variables ----
    u_minibatches,          \* batch_idx of each minibatch of the current epoch
    u_steps,                \* optimizer.step() calls of the current pass
    u_last                  \* the last forward pass or optimizer step: who ran
                            \* it, the placement it ran with, and whether the
                            \* model was transferred for it

cfgvars == <<horizon, ppo_iters, batch_size, num_actors, model_save_interval,
             save_intermediate_models>>
auxvars == <<lr_scheduler, decaySteps, clip_decay, entropy_decay, lossCoef,
             saves>>
ppovars == <<sample, frame, last_model_save_frame, pc, ppo_iter, loader_iter,
             calls, optSteps, saveCount, nanSeen, failed, dropped, trainCalls,
             usedRewards, actionFresh>>
rbvars == <<capacity, rb_alloc, rb_arrays, rb_index, full_loop, rb_total, rb_op,
            rb_batch>>
mpvars == <<population_size, selection_train_frames, num_players, mp_status,
            mp_frame, selected_algs, selection_change_frame, alg_samples,
            alg_rewards, mp_pc, max_frames, mp_entry, mp_logs, mp_passes,
            mp_stale, mp_durations>>
wvars == <<world_train_iters, world_train_rollouts, world_train_horizon,
           constraint, w_status, w_pc, train_iter, w_trained, w_unroll,
           w_disc_grad, w_gen_grad, w_optim_log>>
gvars == <<g_rewards, g_values, g_dones, reward_discount, advantage_discount,
           reward_scale, g_pc, g_out, g_prev, g_changed>>
uvars == <<cuda_eval, cuda_train, model_cuda, u_pc, u_epoch, u_loader, rand_idx,
           u_minibatches, u_steps, u_last>>
sysvars == <<mpvars, wvars, gvars, uvars>>
vars == <<cfgvars, ppovars, auxvars, rbvars, sysvars>>

\* Python's None: the empty tuple; a configured number k is <<k>>.
None == <<>>
Some(k) == <<k>>
ValueOf(x) == x[1]

Min(a, b) == IF a < b THEN a ELSE b
Max(a, b) == IF a > b THEN a ELSE b
Range(s) == {s[i] : i \in 1..Len(s)}

(***************************************************************************)
(* PPO: the sample buffer.                                                 *)
(***************************************************************************)

\* create_new_sample: six empty lists.
create_new_sample ==
    [states |-> <<>>, rewards |-> <<>>, dones |-> <<>>,
     probs |-> <<>>, values |-> <<>>, actions |-> <<>>]

\* append_to_sample with the reward/done pair appended unconditionally.
append_to_sample_always(s, c) ==
    [states  |-> Append(s.states, c),
     rewards |-> Append(s.rewards, c),
     dones   |-> Append(s.dones, c),
     probs   |-> Append(s.probs, c),
     values  |-> Append(s.values, c),
     actions |-> Append(s.actions, c)]

\* append_to_sample: every element appended by the c-th _step call is
\* tagged c.  The reward/done pair is skipped when the sample is empty.
append_to_sample(s, c) ==
    [states  |-> Append(s.states, c),
     rewards |-> IF Len(s.states) # 0 THEN Append(s.rewards, c) ELSE s.rewards,
     dones   |-> IF Len(s.states) # 0 THEN Append(s.dones, c) ELSE s.dones,
     probs   |-> Append(s.probs, c),
     values  |-> Append(s.values, c),
     actions |-> Append(s.actions, c)]

\* The trigger of _step with a strict comparison.
TrainDue_strict(s, h) == Len(s.rewards) > h

\* The trigger of _step: len(self.sample.rewards) >= self.horizon.
TrainDue(s, h) == Len(s.rewards) >= h

\* batches = max(1, num_actors * horizon // batch_size)
Batches == Max(1, (num_actors * horizon) \div batch_size)

\* check_save_model returning also when exactly model_save_interval frames
\* have passed.
SaveDue_late ==
    ~ (model_save_interval = None
       \/ last_model_save_frame + ValueOf(model_save_interval) >= frame)

\* The guard of check_save_model: TRUE when the model is saved.
SaveDue ==
    ~ (model_save_interval = None
       \/ last_model_save_frame + ValueOf(model_save_interval) > frame)

\* The checkpoint's file name without folder and extension (line 427).
model_save_tag == "ppo_model"
SaveName ==
    IF save_intermediate_models THEN <<model_save_tag, frame>>
    ELSE <<model_save_tag>>

\* A decay scheduler's value after step(fr), in units of 1/DecayFrames: 1 at
\* frame 0, falling linearly to 0 at DecayFrames.
DecayValue(fr) == Max(0, DecayFrames - fr)

\* A training pass that does not advance its schedulers.
StepDecay_skip(d, fr) == d

\* scheduler.step(fr) on a configured scheduler; None stays None.
StepDecay(d, fr) == IF d = None THEN None ELSE Some(DecayValue(fr))

\* The step() calls one training pass makes on a scheduler (the guards of
\* lines 190, 192 and 194).
StepCalls(d) == IF d = None THEN 0 ELSE 1

\* clip_mult (lines 153-155), in units of 1/DecayFrames.
clip_mult == IF clip_decay # None THEN ValueOf(clip_decay) ELSE DecayValue(0)

\* The multipliers _get_ppo_loss applies to the configured value_clip,
\* policy_clip (lines 363-364) and entropy_bonus (line 391), in units of
\* 1/DecayFrames.
LossCoefficients ==
    [value_clip |-> clip_mult, policy_clip |-> clip_mult,
     entropy_bonus |-> DecayValue(0)]

\* No loss computed yet.
NoCoef == [value_clip |-> 0, policy_clip |-> 0, entropy_bonus |-> 0]

(***************************************************************************)
(* PPO: initial state (after PPO.__init__).                                *)
(***************************************************************************)
InitConfig ==
    /\ horizon \in 1..MaxHorizon
    /\ ppo_iters \in 1..MaxPpoIters
    /\ batch_size \in 1..MaxBatchSize
    /\ num_actors \in 1..MaxActors
    /\ model_save_interval \in {None} \cup {Some(k) : k \in 1..MaxSaveInterval}
    /\ save_intermediate_models \in BOOLEAN
    /\ lr_scheduler = None
    /\ clip_decay \in {None, Some(DecayValue(0))}
    /\ entropy_decay \in {None, Some(DecayValue(0))}

InitAgent ==
    /\ sample = create_new_sample
    /\ frame = 0
    /\ last_model_save_frame = 0
    /\ pc = "idle"
    /\ ppo_iter = 0
    /\ loader_iter = 0
    /\ calls = 0
    /\ optSteps = 0
    /\ saveCount = 0
    /\ nanSeen = FALSE
    /\ failed = FALSE
    /\ dropped = FALSE
    /\ trainCalls = <<>>
    /\ usedRewards = {}
    /\ actionFresh = TRUE
    /\ decaySteps = [lr |-> 0, clip |-> 0, entropy |-> 0]
    /\ lossCoef = NoCoef
    /\ saves = <<>>

(***************************************************************************)
(* PPO: the operations.                                                    *)
(***************************************************************************)

\* RLBase counts num_actors frames for every step of the vectorised
\* environment (one frame per actor).
NextFrame(fr) == fr + num_actors

\* _step up to its return or its entry into _train: the forward pass of
\* lines 172-173 computes the actions, then the step is appended.
Step ==
    /\ UNCHANGED <<sysvars, cfgvars, rbvars, auxvars>>
    /\ pc = "idle"
    /\ calls < MaxCalls
    /\ calls' = calls + 1
    /\ frame' = NextFrame(frame)
    /\ actionFresh' = TRUE
    /\ sample' = append_to_sample(sample, calls + 1)
    /\ IF TrainDue(sample', horizon)
       THEN /\ pc' = "train"
            /\ trainCalls' = Append(trainCalls, calls + 1)
       ELSE /\ pc' = "idle"
            /\ UNCHANGED trainCalls
    /\ UNCHANGED <<last_model_save_frame, ppo_iter, loader_iter, optSteps,
                   saveCount, nanSeen, failed, dropped, usedRewards>>

\* _train, lines 187-195: logging check and the decay schedulers.
TrainBegin ==
    /\ UNCHANGED <<sysvars, cfgvars, rbvars>>
    /\ pc = "train"
    /\ lr_scheduler' = StepDecay(lr_scheduler, frame)
    /\ clip_decay' = StepDecay(clip_decay, frame)
    /\ entropy_decay' = StepDecay(entropy_decay, frame)
    /\ decaySteps' = [lr |-> decaySteps.lr + StepCalls(lr_scheduler),
                      clip |-> decaySteps.clip + StepCalls(clip_decay),
                      entropy |-> decaySteps.entropy + StepCalls(entropy_decay)]
    /\ pc' = "process"
    /\ UNCHANGED <<lossCoef, saves>>
    /\ UNCHANGED <<sample, frame, last_model_save_frame, ppo_iter, loader_iter,
                   calls, optSteps, saveCount, nanSeen, failed, dropped,
                   trainCalls, usedRewards,
                   actionFresh>>

\* _process_sample and the prelude of _ppo_update (lines 294-301).
ProcessSample ==
    /\ UNCHANGED <<sysvars, cfgvars, rbvars, auxvars>>
    /\ pc = "process"
    /\ usedRewards' = usedRewards \cup Range(sample.rewards)
    /\ ppo_iter' = 0
    /\ loader_iter' = 0
    /\ optSteps' = 0
    /\ pc' = "loss"
    /\ UNCHANGED <<sample, frame, last_model_save_frame, calls, saveCount,
                   nanSeen, failed, dropped, trainCalls,
                   actionFresh>>

\* _get_ppo_loss without the assertion of line 395.
AfterLoss_unchecked(finite) == "optimize"

\* Where control goes after the total loss is computed (lines 394-396): on to
\* loss.backward(), or out through the failed assertion.
AfterLoss(finite) == IF finite THEN "optimize" ELSE "raised"

\* One minibatch up to the end of _get_ppo_loss (lines 307-316): the total
\* loss is finite, or it is NaN/inf and the assertion of line 395 raises.
GetPpoLoss ==
    /\ UNCHANGED <<sysvars, cfgvars, rbvars>>
    /\ pc = "loss"
    /\ \E finite \in BOOLEAN :
          /\ nanSeen' = ~finite
          /\ pc' = AfterLoss(finite)
    /\ lossCoef' = LossCoefficients
    /\ UNCHANGED <<lr_scheduler, decaySteps, clip_decay, entropy_decay, saves>>
    /\ UNCHANGED <<sample, frame, last_model_save_frame, ppo_iter, loader_iter,
                   calls, optSteps, saveCount, failed, dropped, trainCalls,
                   usedRewards,
                   actionFresh>>

\* The rest of the minibatch (lines 319-324) and the loop control of
\* lines 303 and 305.
Optimize ==
    /\ UNCHANGED <<sysvars, cfgvars, rbvars, auxvars>>
    /\ pc = "optimize"
    /\ optSteps' = optSteps + 1
    /\ actionFresh' = FALSE
    /\ IF loader_iter + 1 < Batches
       THEN /\ loader_iter' = loader_iter + 1
            /\ UNCHANGED ppo_iter
            /\ pc' = "loss"
       ELSE /\ loader_iter' = 0
            /\ ppo_iter' = ppo_iter + 1
            /\ pc' = IF ppo_iter + 1 < ppo_iters THEN "loss" ELSE "save"
    /\ UNCHANGED <<sample, frame, last_model_save_frame, calls, saveCount,
                   nanSeen, failed, dropped, trainCalls, usedRewards>>

\* check_save_model.
CheckSaveModel ==
    /\ UNCHANGED <<sysvars, cfgvars, rbvars>>
    /\ pc = "save"
    /\ IF SaveDue
       THEN /\ last_model_save_frame' = frame
            /\ saveCount' = saveCount + 1
            /\ saves' = Append(saves, [frame |-> frame, name |-> SaveName])
       ELSE UNCHANGED <<last_model_save_frame, saveCount, saves>>
    /\ UNCHANGED <<lr_scheduler, decaySteps, clip_decay, entropy_decay,
                   lossCoef>>
    /\ pc' = "reset"
    /\ UNCHANGED <<sample, frame, ppo_iter, loader_iter, calls, optSteps,
                   nanSeen, failed, dropped, trainCalls, usedRewards,
                   actionFresh>>

\* _train, line 201, and the return of _step.
ResetSample ==
    /\ UNCHANGED <<sysvars, cfgvars, rbvars, auxvars>>
    /\ pc = "reset"
    /\ sample' = create_new_sample
    /\ pc' = "idle"
    /\ UNCHANGED <<frame, last_model_save_frame, ppo_iter, loader_iter, calls,
                   optSteps, saveCount, nanSeen, failed, dropped, trainCalls,
                   usedRewards,
                   actionFresh>>

\* The AssertionError of line 395 leaves _get_ppo_loss, _ppo_update, _train
\* and _step; nothing on the way catches it.
PropagateError ==
    /\ UNCHANGED <<sysvars, cfgvars, rbvars, auxvars>>
    /\ pc = "raised"
    /\ pc' = "idle"
    /\ failed' = TRUE
    /\ nanSeen' = FALSE
    /\ UNCHANGED <<sample, frame, last_model_save_frame, ppo_iter, loader_iter,
                   calls, optSteps, saveCount, dropped, trainCalls, usedRewards,
                   actionFresh>>

\* drop_collected_steps, called between two _step calls.
DropCollectedSteps ==
    /\ UNCHANGED <<sysvars, cfgvars, rbvars, auxvars>>
    /\ pc = "idle"
    /\ sample # create_new_sample
    /\ sample' = [states |-> <<>>, probs |-> <<>>, values |-> <<>>,
                  actions |-> <<>>, rewards |-> <<>>, dones |-> <<>>]
    /\ dropped' = TRUE
    /\ UNCHANGED <<frame, last_model_save_frame, pc, ppo_iter, loader_iter,
                   calls, optSteps, saveCount, nanSeen, failed, trainCalls,
                   usedRewards,
                   actionFresh>>

NextAgent ==
    \/ Step
    \/ TrainBegin
    \/ ProcessSample
    \/ GetPpoLoss
    \/ Optimize
    \/ CheckSaveModel
    \/ ResetSample
    \/ PropagateError
    \/ DropCollectedSteps

(***************************************************************************)
(* ReplayBuffer (mppo.py:96-161).                                          *)
(*                                                                         *)
(* The four arrays are indexed by time slot 0..capacity-1; a slot holds    *)
(* one row, a function of the actor.  A cell pushed as part of the k-th    *)
(* time-step ever written (k = 1, 2, ...) is tagged with its array, k and  *)
(* its actor; a cell of np.zeros is tagged with step 0.                    *)
(***************************************************************************)
Fields == <<"states", "actions", "rewards", "dones">>
FieldSet == Range(Fields)
Actors == 1..num_actors

Cell(f, k, a) == [field |-> f, step |-> k, actor |-> a]
ZeroRow(f) == [a \in Actors |-> Cell(f, 0, 0)]
Row(f, k) == [a \in Actors |-> Cell(f, k, a)]

\* self.states = self.actions = self.rewards = self.dones = None
NoArrays == [f \in FieldSet |-> <<>>]

\* np.zeros((capacity, actors, ...)) for each of the four arrays.
ZeroArrays == [f \in FieldSet |-> [t \in 0..(capacity - 1) |-> ZeroRow(f)]]

\* The rollout handed to push: ls, la, lr, ld time-steps of states, actions,
\* rewards and dones, numbered from first + 1.
Rollout(first, ls, la, lr, ld) ==
    [states  |-> [i \in 1..ls |-> Row("states", first + i)],
     actions |-> [i \in 1..la |-> Row("actions", first + i)],
     rewards |-> [i \in 1..lr |-> Row("rewards", first + i)],
     dones   |-> [i \in 1..ld |-> Row("dones", first + i)]]

\* A Python slice bound i on a sequence of length n: negative bounds count
\* from the end, and every bound is clamped to 0..n.
PyBound(i, n) == IF i < 0 THEN Max(n + i, 0) ELSE Min(i, n)

\* s[:n] and s[n:] of Python.
SliceTo(s, n) == SubSeq(s, 1, PyBound(n, Len(s)))
SliceFrom(s, n) == SubSeq(s, PyBound(n, Len(s)) + 1, Len(s))

\* ro[:n] and ro[n:] applied to each of the four arguments (lines 128, 130).
RolloutTo(ro, n) == [f \in FieldSet |-> SliceTo(ro[f], n)]
RolloutFrom(ro, n) == [f \in FieldSet |-> SliceFrom(ro[f], n)]

\* numpy's arr[a:b] = vals on the time axis: the target is clamped to the
\* array; vals must have the target's length, or length 1 (broadcast);
\* otherwise numpy raises ValueError and arr is untouched.
SliceAssign(arr, a, b, vals) ==
    LET lo == PyBound(a, capacity)
        hi == Max(lo, PyBound(b, capacity))
        n  == hi - lo
        v  == Len(vals)
    IN  IF v = n
        THEN [ok |-> TRUE,
              arr |-> [t \in 0..(capacity - 1) |->
                          IF lo <= t /\ t < hi THEN vals[t - lo + 1] ELSE arr[t]]]
        ELSE IF v = 1
        THEN [ok |-> TRUE,
              arr |-> [t \in 0..(capacity - 1) |->
                          IF lo <= t /\ t < hi THEN vals[1] ELSE arr[t]]]
        ELSE [ok |-> FALSE, arr |-> arr]

\* _push_unchecked on the buffer b = [arrays, index, full_loop, raised]:
\* the four slice assignments in order, then index += states.shape[0].
\* An assignment that raises ends the call there.
_push_unchecked(b, ro) ==
    LET a  == b.index
        e  == b.index + Len(ro.states)
        r1 == SliceAssign(b.arrays.states, a, e, ro.states)
        r2 == SliceAssign(b.arrays.actions, a, e, ro.actions)
        r3 == SliceAssign(b.arrays.rewards, a, e, ro.rewards)
        r4 == SliceAssign(b.arrays.dones, a, e, ro.dones)
        w1 == [b.arrays EXCEPT !.states = r1.arr]
        w2 == [w1 EXCEPT !.actions = r2.arr]
        w3 == [w2 EXCEPT !.rewards = r3.arr]
        w4 == [w3 EXCEPT !.dones = r4.arr]
    IN  IF b.raised THEN b
        ELSE IF ~r1.ok THEN [b EXCEPT !.raised = TRUE]
        ELSE IF ~r2.ok THEN [b EXCEPT !.arrays = w1, !.raised = TRUE]
        ELSE IF ~r3.ok THEN [b EXCEPT !.arrays = w2, !.raised = TRUE]
        ELSE IF ~r4.ok THEN [b EXCEPT !.arrays = w3, !.raised = TRUE]
        ELSE [b EXCEPT !.arrays = w4, !.index = b.index + Len(ro.states)]

\* The assertions of lines 114-115 on the leading (time) dimension.
ShapesAgree(ro) ==
    /\ Len(ro.rewards) = Len(ro.dones)
    /\ Len(ro.rewards) = Len(ro.states)
    /\ Len(ro.rewards) = Len(ro.actions)

\* push whose wrap-around branch forgets line 129 (self.index = 0).
push_no_rewind(b, ro) ==
    LET b0 == IF b.alloc THEN b
              ELSE [b EXCEPT !.alloc = TRUE, !.arrays = ZeroArrays]
        L  == Len(ro.states)
        n  == capacity - b0.index - L
        p1 == _push_unchecked(b0, RolloutTo(ro, n))
        p2 == _push_unchecked(p1, RolloutFrom(ro, n))
    IN  IF b0.index + L <= capacity
        THEN _push_unchecked(b0, ro)
        ELSE IF p2.raised THEN p2 ELSE [p2 EXCEPT !.full_loop = TRUE]

\* push, lines 117-131, on a buffer whose assertions passed.  A statement
\* after one that raised does not run.
push(b, ro) ==
    LET b0 == IF b.alloc THEN b
              ELSE [b EXCEPT !.alloc = TRUE, !.arrays = ZeroArrays]
        L  == Len(ro.states)
        n  == capacity - b0.index - L
        p1 == _push_unchecked(b0, RolloutTo(ro, n))
        z  == IF p1.raised THEN p1 ELSE [p1 EXCEPT !.index = 0]
        p2 == _push_unchecked(z, RolloutFrom(ro, n))
    IN  IF b0.index + L <= capacity
        THEN _push_unchecked(b0, ro)
        ELSE IF p2.raised THEN p2 ELSE [p2 EXCEPT !.full_loop = TRUE]

\* The buffer object as a record.
Buffer ==
    [alloc |-> rb_alloc, arrays |-> rb_arrays, index |-> rb_index,
     full_loop |-> full_loop, raised |-> FALSE]

\* Time-steps of b that differ from those of the buffer c in some array.
WrittenSlots(b, c) ==
    IF ~b.alloc THEN {}
    ELSE {t \in 0..(capacity - 1) :
             ~c.alloc \/ \E f \in FieldSet : b.arrays[f][t] # c.arrays[f][t]}

\* __len__
RBLen == Min(rb_index, capacity)

\* The bound of line 150 taken from the capacity whether or not the buffer
\* has wrapped.
SampleHigh_capacity(hz) == capacity - hz

\* The exclusive upper bound handed to np.random.randint for rand_h (line 150).
SampleHigh(hz) == (IF full_loop THEN capacity ELSE rb_index) - hz

\* One column of the batch: the window [h, h + hz) of actor r (lines 151-156).
Column(h, r, hz) ==
    [f \in FieldSet |-> [i \in 1..hz |-> rb_arrays[f][h + i - 1][r]]]

InitRB ==
    /\ capacity \in 1..MaxCapacity
    /\ rb_alloc = FALSE
    /\ rb_arrays = NoArrays
    /\ rb_index = 0
    /\ full_loop = FALSE
    /\ rb_total = 0
    /\ rb_op = [op |-> "new", ok |-> TRUE, len |-> 0, horizon |-> 0]
    /\ rb_batch = <<>>

\* ReplayBuffer.push with a rollout of ls time-steps of states and la, lr, ld
\* of actions, rewards and dones.
Push ==
    /\ UNCHANGED <<sysvars, cfgvars, ppovars, auxvars>>
    /\ \E ls \in 0..MaxPushLen :
       \E la \in {ls, ls + 1}, lr \in {ls, ls + 1}, ld \in {ls, ls + 1} :
          LET ro == Rollout(rb_total, ls, la, lr, ld)
              nb == push(Buffer, ro)
          IN  /\ rb_total + ls <= MaxTotal
              /\ IF ~ShapesAgree(ro)
                 THEN /\ UNCHANGED <<rb_alloc, rb_arrays, rb_index, full_loop,
                                     rb_total>>
                      /\ rb_op' = [op |-> "push", ok |-> FALSE, len |-> ls,
                                   horizon |-> 0]
                 ELSE /\ rb_alloc' = nb.alloc
                      /\ rb_arrays' = nb.arrays
                      /\ rb_index' = nb.index
                      /\ full_loop' = nb.full_loop
                      /\ rb_total' = IF nb.raised
                                     THEN rb_total + Cardinality(WrittenSlots(nb, Buffer))
                                     ELSE rb_total + ls
                      /\ rb_op' = [op |-> "push", ok |-> ~nb.raised, len |-> ls,
                                   horizon |-> 0]
    /\ UNCHANGED <<capacity, rb_batch>>

\* ReplayBuffer.sample(rollouts, hz): self.states.shape raises on a buffer
\* that was never pushed to, randint raises ValueError on a bound <= 0.  Every
\* column ri draws its own rand_r and rand_h.
SampleRB ==
    /\ UNCHANGED <<sysvars, cfgvars, ppovars, auxvars>>
    /\ \E rollouts \in 1..MaxRollouts, hz \in 1..MaxSampleHorizon :
          IF rb_alloc /\ SampleHigh(hz) > 0
          THEN \E rand_r \in [1..rollouts -> Actors],
                  rand_h \in [1..rollouts -> 0..(SampleHigh(hz) - 1)] :
                  /\ rb_batch' = [ri \in 1..rollouts |->
                                    [h |-> rand_h[ri], r |-> rand_r[ri],
                                     cols |-> Column(rand_h[ri], rand_r[ri], hz)]]
                  /\ rb_op' = [op |-> "sample", ok |-> TRUE, len |-> 0,
                               horizon |-> hz]
          ELSE /\ rb_batch' = <<>>
               /\ rb_op' = [op |-> "sample", ok |-> FALSE, len |-> 0,
                            horizon |-> hz]
    /\ UNCHANGED <<capacity, rb_alloc, rb_arrays, rb_index, full_loop, rb_total>>

NextRB ==
    \/ Push
    \/ SampleRB

(***************************************************************************)
(* The specifications.                                                     *)
(***************************************************************************)
\* The agent of Spec owns no replay buffer that is pushed to.
RBIdle ==
    /\ capacity = 1
    /\ rb_alloc = FALSE
    /\ rb_arrays = NoArrays
    /\ rb_index = 0
    /\ full_loop = FALSE
    /\ rb_total = 0
    /\ rb_op = [op |-> "new", ok |-> TRUE, len |-> 0, horizon |-> 0]
    /\ rb_batch = <<>>

\* No trainer: a population of one agent that is never stepped.
MPIdle ==
    /\ population_size = 1
    /\ selection_train_frames = 1
    /\ num_players = 1
    /\ mp_status = "ready"
    /\ mp_frame = 0
    /\ selected_algs = None
    /\ selection_change_frame = None
    /\ alg_samples = <<create_new_sample>>
    /\ alg_rewards = <<None>>
    /\ mp_pc = "idle"
    /\ max_frames = 0
    /\ mp_entry = 0
    /\ mp_logs = <<>>
    /\ mp_passes = {}
    /\ mp_stale = FALSE
    /\ mp_durations = {}

\* No MPPO agent.
WIdle ==
    /\ world_train_iters = 1
    /\ world_train_rollouts = 1
    /\ world_train_horizon = 1
    /\ constraint = None
    /\ w_status = "ready"
    /\ w_pc = "idle"
    /\ train_iter = 0
    /\ w_trained = FALSE
    /\ w_unroll = <<>>
    /\ w_disc_grad = {}
    /\ w_gen_grad = {}
    /\ w_optim_log = <<>>

\* Nothing computed by _process_rewards.
NoEstimate ==
    [rewards |-> <<>>, returns |-> <<>>, raw_advantages |-> <<>>,
     advantages |-> [centred |-> <<>>, sumsq |-> 0]]

\* No column to process.
GIdle ==
    /\ g_rewards = <<>>
    /\ g_values = <<0>>
    /\ g_dones = <<>>
    /\ reward_discount = 0
    /\ advantage_discount = 0
    /\ reward_scale = 1
    /\ g_pc = "idle"
    /\ g_out = NoEstimate
    /\ g_prev = NoEstimate
    /\ g_changed = 0

\* Placement and minibatches not followed.
UIdle ==
    /\ cuda_eval = FALSE
    /\ cuda_train = FALSE
    /\ model_cuda = FALSE
    /\ u_pc = "idle"
    /\ u_epoch = 0
    /\ u_loader = 0
    /\ rand_idx = <<>>
    /\ u_minibatches = <<>>
    /\ u_steps = 0
    /\ u_last = [op |-> "new", cuda |-> FALSE, moved |-> FALSE]

SysIdle == MPIdle /\ WIdle /\ GIdle /\ UIdle

\* The replay buffer of SpecRB is exercised on its own: the agent is idle,
\* and of its configuration only num_actors (the actor axis) matters.
AgentIdle ==
    /\ horizon = 1
    /\ ppo_iters = 1
    /\ batch_size = 1
    /\ num_actors \in 1..MaxActors
    /\ model_save_interval = None
    /\ save_intermediate_models = FALSE
    /\ lr_scheduler = None
    /\ clip_decay = None
    /\ entropy_decay = None
    /\ InitAgent

Init == InitConfig /\ InitAgent /\ RBIdle /\ SysIdle
Next == NextAgent
Spec == Init /\ [][Next]_vars

\* The PPO agent with each of its three decay schedulers (lr_scheduler,
\* clip_decay, entropy_decay; constructor lines 144-146) configured or not.
\* Checkpoints keep one file name and are due at every pass or never.
InitSchedulers ==
    /\ horizon \in 1..MaxHorizon
    /\ ppo_iters \in 1..MaxPpoIters
    /\ batch_size \in 1..MaxBatchSize
    /\ num_actors \in 1..MaxActors
    /\ model_save_interval \in {None, Some(1)}
    /\ save_intermediate_models = FALSE
    /\ lr_scheduler \in {None, Some(DecayValue(0))}
    /\ clip_decay \in {None, Some(DecayValue(0))}
    /\ entropy_decay \in {None, Some(DecayValue(0))}
SchedInit == InitSchedulers /\ InitAgent /\ RBIdle /\ SysIdle
SpecSched == SchedInit /\ [][Next]_vars

RBInit == AgentIdle /\ InitRB /\ SysIdle
SpecRB == RBInit /\ [][NextRB]_vars

(***************************************************************************)
(* MultiplayerEnvTrainer (common/multiplayer_env_trainer.py).  Every agent *)
(* of the population is a PPO agent built by the same factory, so horizon  *)
(* and num_actors are shared; an agent's training pass, modelled stage by  *)
(* stage in Spec, is one step here.                                        *)
(***************************************************************************)
\* env.set_num_envs(alg.num_actors), line 56.
num_envs == num_actors

\* The assertion of line 66 left out.
PopulationOk_unchecked == TRUE

\* The assertion of line 66.
PopulationOk == population_size >= num_players

\* The early return of _try_update_selection taken also when exactly
\* selection_train_frames frames have passed.
SelectionKept_late ==
    /\ selected_algs # None
    /\ ValueOf(selection_change_frame) + selection_train_frames >= mp_frame

\* The early return of _try_update_selection (lines 107-109).
SelectionKept ==
    /\ selected_algs # None
    /\ ValueOf(selection_change_frame) + selection_train_frames > mp_frame

\* np.random.choice(np.arange(population_size), num_players, replace=False):
\* the arrays of num_players different indexes.
Choices ==
    {s \in [1..num_players -> 1..population_size] :
        \A i, j \in 1..num_players : i # j => s[i] # s[j]}

Members(sel) == {sel[i] : i \in DOMAIN sel}

\* _try_update_selection without the loop of lines 114-116.
DropOutgoing_none(samples, outgoing) == samples

\* Lines 114-116: drop_collected_steps (ppo.py:419-420) on every agent of
\* the outgoing selection.
DropOutgoing(samples, outgoing) ==
    [i \in 1..population_size |->
        IF i \in outgoing THEN create_new_sample ELSE samples[i]]

\* train's loop condition with the frame of the step not counted in.
Stop_late(mf) == mp_frame >= mf

\* stop = self.frame + self.env.num_envs >= max_frames (line 100).
Stop(mf) == mp_frame + num_envs >= mf

MPInit ==
    /\ horizon \in 1..MaxHorizon
    /\ ppo_iters = 1
    /\ batch_size = 1
    /\ num_actors \in 1..MaxActors
    /\ model_save_interval = None
    /\ save_intermediate_models = FALSE
    /\ lr_scheduler = None
    /\ clip_decay = None
    /\ entropy_decay = None
    /\ InitAgent
    /\ RBIdle
    /\ WIdle
    /\ GIdle
    /\ UIdle
    /\ population_size \in 1..MaxPopulation
    /\ selection_train_frames \in 1..MaxSelectionFrames
    /\ num_players \in 1..MaxPlayers
    /\ mp_status = IF PopulationOk THEN "ready" ELSE "failed"
    /\ mp_frame = 0
    /\ selected_algs = None
    /\ selection_change_frame = None
    /\ alg_samples = [i \in 1..population_size |-> create_new_sample]
    /\ alg_rewards = [i \in 1..population_size |-> None]
    /\ mp_pc = "idle"
    /\ max_frames = 0
    /\ mp_entry = 0
    /\ mp_logs = <<>>
    /\ mp_passes = {}
    /\ mp_stale = FALSE
    /\ mp_durations = {}

nonmpvars == <<cfgvars, ppovars, auxvars, rbvars, wvars, gvars, uvars>>

\* step (lines 68-94): _try_update_selection, then every selected agent is
\* evaluated (RLBase.eval runs PPO._step, which appends to the agent's sample
\* and trains when due), the environment is stepped, every selected agent
\* receives its reward, and the frame advances by num_envs.
step ==
    LET redraw == ~ SelectionKept
        outgoing == IF selected_algs = None THEN {}
                    ELSE Members(ValueOf(selected_algs))
        kept == IF redraw THEN DropOutgoing(alg_samples, outgoing)
                ELSE alg_samples
        period == IF redraw THEN mp_frame ELSE ValueOf(selection_change_frame)
    IN  \E sel \in (IF redraw THEN Choices ELSE {ValueOf(selected_algs)}) :
          LET members == Members(sel)
              evaluated(i) == append_to_sample(kept[i], period)
              trains(i) == TrainDue(evaluated(i), horizon)
          IN  /\ selection_change_frame' = Some(period)
              /\ selected_algs' = Some(sel)
              /\ alg_samples' =
                    [i \in 1..population_size |->
                        IF i \notin members THEN kept[i]
                        ELSE IF trains(i) THEN create_new_sample
                        ELSE evaluated(i)]
              /\ alg_rewards' =
                    [i \in 1..population_size |->
                        IF i \in members THEN Some(period) ELSE alg_rewards[i]]
              /\ mp_passes' =
                    {Range(evaluated(i).states) \cup Range(evaluated(i).rewards) :
                        i \in {j \in members : trains(j)}}
              /\ mp_stale' =
                    \E i \in members :
                        /\ Len(kept[i].states) # 0
                        /\ alg_rewards[i] # Some(period)
              /\ mp_durations' =
                    IF redraw /\ selected_algs # None
                    THEN mp_durations
                            \cup {mp_frame - ValueOf(selection_change_frame)}
                    ELSE mp_durations
              /\ mp_frame' = mp_frame + num_envs
              /\ UNCHANGED <<population_size, selection_train_frames,
                             num_players, mp_status>>

\* step called directly, always_log left at its default.
DirectStep ==
    /\ UNCHANGED <<nonmpvars>>
    /\ mp_status = "ready"
    /\ mp_pc = "idle"
    /\ mp_frame < MaxFrames
    /\ step
    /\ UNCHANGED <<mp_pc, max_frames, mp_entry, mp_logs>>

\* train(max_frames) is entered.
TrainCall ==
    /\ UNCHANGED <<nonmpvars>>
    /\ mp_status = "ready"
    /\ mp_pc = "idle"
    /\ mp_frame < MaxFrames
    /\ \E mf \in 1..MaxFrames : max_frames' = mf
    /\ mp_pc' = "training"
    /\ mp_entry' = mp_frame
    /\ mp_logs' = <<>>
    /\ UNCHANGED <<population_size, selection_train_frames, num_players,
                   mp_status, mp_frame, selected_algs, selection_change_frame,
                   alg_samples, alg_rewards, mp_passes, mp_stale, mp_durations>>

\* One iteration of train's loop (lines 99-103).
TrainIter ==
    /\ UNCHANGED <<nonmpvars>>
    /\ mp_pc = "training"
    /\ step
    /\ mp_logs' = Append(mp_logs, Stop(max_frames))
    /\ mp_pc' = IF Stop(max_frames) THEN "returned" ELSE "training"
    /\ UNCHANGED <<max_frames, mp_entry>>

\* train has returned to its caller.
TrainReturn ==
    /\ UNCHANGED <<nonmpvars>>
    /\ mp_pc = "returned"
    /\ mp_pc' = "idle"
    /\ UNCHANGED <<population_size, selection_train_frames, num_players,
                   mp_status, mp_frame, selected_algs, selection_change_frame,
                   alg_samples, alg_rewards, max_frames, mp_entry, mp_logs,
                   mp_passes, mp_stale, mp_durations>>

NextMP == DirectStep \/ TrainCall \/ TrainIter \/ TrainReturn
SpecMP == MPInit /\ [][NextMP]_vars

\* train's loop runs on until it breaks.
FairSpecMP == MPInit /\ [][NextMP]_vars /\ WF_vars(TrainIter)

(***************************************************************************)
(* MPPO (ppo/mppo.py:163-309): a PPO agent whose _ppo_update first feeds   *)
(* the replay buffer and trains the world model.  The PPO optimisation     *)
(* itself, modelled stage by stage in Spec, is one step here.              *)
(***************************************************************************)
\* The assertion of ppo.py:134.
ConstraintOk == constraint \in {None, Some("clip"), Some("clip_mod")}

\* The threshold of lines 177 and 198.
WorldBatch == world_train_iters * world_train_rollouts * world_train_horizon

\* The assertion of mppo.py:177 left out.
BufferSizeOk_unchecked == TRUE

\* The assertion of mppo.py:177; replay_buffer_size is the buffer's capacity
\* (line 193).
BufferSizeOk == capacity >= WorldBatch

\* The condition of line 198, len(self.replay_buffer) > threshold, for a
\* buffer whose index is idx.
WorldTrainDue(idx) == Min(idx, capacity) > WorldBatch

\* cur_actions of unroll step i (line 265): sampled from the current policy.
PolicyActions(ti, i) == [src |-> "policy", iter |-> ti, step |-> Some(i)]

\* actions of iteration ti (line 228): the replayed window of real actions.
ReplayedActions(ti) == [src |-> "replay", iter |-> ti, step |-> None]

\* One step of the unroll (lines 260-274): the action argument of the
\* generator (line 267), of the discriminator (lines 268-269), and what is
\* appended to all_gen_actions (line 271).
UnrollStep(ti, i) ==
    [gen |-> ReplayedActions(ti),
     disc |-> PolicyActions(ti, i),
     stored |-> PolicyActions(ti, i)]

\* loss.backward() of a phase adds that phase's gradient to what a network's
\* parameters hold.
Backward(grad, phase) == grad \cup {phase}

\* An optimizer's zero_grad() missing.
ZeroGrad_kept(grad) == grad

\* optimizer.zero_grad().
ZeroGrad(grad) == {}

\* optimizer.step() of optimizer o in phase ph of iteration ti, on gradients
\* accumulated from the phases grad.
OptimStep(o, ph, ti, grad) ==
    [optim |-> o, phase |-> ph, iter |-> ti, grad |-> grad]

WInit ==
    /\ horizon \in 1..MaxHorizon
    /\ ppo_iters = 1
    /\ batch_size = 1
    /\ num_actors \in 1..MaxActors
    /\ model_save_interval = None
    /\ save_intermediate_models = FALSE
    /\ lr_scheduler = None
    /\ clip_decay = None
    /\ entropy_decay = None
    /\ InitAgent
    /\ InitRB
    /\ MPIdle
    /\ GIdle
    /\ UIdle
    /\ world_train_iters \in 1..MaxWorldIters
    /\ world_train_rollouts \in 1..MaxRollouts
    /\ world_train_horizon \in 1..MaxWorldHorizon
    /\ constraint \in {None, Some("clip"), Some("clip_mod"), Some("kl")}
    /\ w_status = IF ConstraintOk /\ BufferSizeOk THEN "ready" ELSE "failed"
    /\ w_pc = "idle"
    /\ train_iter = 0
    /\ w_trained = FALSE
    /\ w_unroll = <<>>
    /\ w_disc_grad = {}
    /\ w_gen_grad = {}
    /\ w_optim_log = <<>>

nonwvars == <<cfgvars, ppovars, auxvars, mpvars, gvars, uvars>>
wconfig == <<world_train_iters, world_train_rollouts, world_train_horizon,
             constraint, w_status>>

\* MPPO._ppo_update up to the decision of line 198: the rollout of horizon
\* time-steps is pushed (_update_replay_buffer, lines 202-209); a push that
\* raises ends the update.  Updates go on for ever; the count of time-steps
\* received stops at MaxTotal, which is above every accepted threshold.
UpdateReplayBuffer ==
    /\ UNCHANGED <<nonwvars, wconfig>>
    /\ w_status = "ready"
    /\ w_pc = "idle"
    /\ LET ro == Rollout(rb_total, horizon, horizon, horizon, horizon)
           nb == push(Buffer, ro)
       IN  /\ rb_alloc' = nb.alloc
           /\ rb_arrays' = nb.arrays
           /\ rb_index' = nb.index
           /\ full_loop' = nb.full_loop
           /\ rb_total' = Min(MaxTotal,
                              IF nb.raised
                              THEN rb_total + Cardinality(WrittenSlots(nb, Buffer))
                              ELSE rb_total + horizon)
           /\ rb_op' = [op |-> "push", ok |-> ~nb.raised, len |-> horizon,
                        horizon |-> 0]
           /\ w_trained' = (~nb.raised /\ WorldTrainDue(nb.index))
           /\ w_pc' = IF nb.raised THEN "raised"
                      ELSE IF WorldTrainDue(nb.index) THEN "world"
                      ELSE "ppo"
    /\ train_iter' = 0
    /\ w_unroll' = <<>>
    /\ w_optim_log' = <<>>
    /\ UNCHANGED <<capacity, rb_batch, w_disc_grad, w_gen_grad>>

\* _train_world, lines 212-223: the batch is drawn from the replay buffer.
\* The windows drawn are not recorded; iteration ti works on its slice.
TrainWorldSample ==
    /\ UNCHANGED <<nonwvars, wconfig>>
    /\ w_pc = "world"
    /\ IF rb_alloc /\ SampleHigh(world_train_horizon) > 0
       THEN /\ w_pc' = "real"
            /\ rb_op' = [op |-> "sample", ok |-> TRUE, len |-> 0,
                         horizon |-> world_train_horizon]
       ELSE /\ w_pc' = "raised"
            /\ rb_op' = [op |-> "sample", ok |-> FALSE, len |-> 0,
                         horizon |-> world_train_horizon]
    /\ UNCHANGED <<capacity, rb_alloc, rb_arrays, rb_index, full_loop, rb_total,
                   rb_batch, train_iter, w_trained, w_unroll, w_disc_grad,
                   w_gen_grad, w_optim_log>>

\* The discriminator step on real transitions (lines 229-252): backward of
\* real_loss, world_disc_optim.step(), zero_grad() of both optimizers.
DiscReal ==
    /\ UNCHANGED <<nonwvars, wconfig, rbvars>>
    /\ w_pc = "real"
    /\ LET d == Backward(w_disc_grad, "real")
       IN  /\ w_optim_log' =
                 Append(w_optim_log, OptimStep("disc", "real", train_iter, d))
           /\ w_disc_grad' = ZeroGrad(d)
           /\ w_gen_grad' = ZeroGrad(w_gen_grad)
    /\ w_pc' = "fake"
    /\ w_unroll' = <<>>
    /\ UNCHANGED <<train_iter, w_trained>>

\* One pass of the loop of lines 260-274.
Unroll ==
    /\ UNCHANGED <<nonwvars, wconfig, rbvars>>
    /\ w_pc = "fake"
    /\ Len(w_unroll) < world_train_horizon
    /\ w_unroll' = Append(w_unroll, UnrollStep(train_iter, Len(w_unroll)))
    /\ UNCHANGED <<w_pc, train_iter, w_trained, w_disc_grad, w_gen_grad,
                   w_optim_log>>

\* The discriminator step on generated transitions (lines 275-281): the
\* generator's outputs were detached (lines 268-269), so backward of
\* fake_loss reaches the discriminator only.
DiscFake ==
    /\ UNCHANGED <<nonwvars, wconfig, rbvars>>
    /\ w_pc = "fake"
    /\ Len(w_unroll) = world_train_horizon
    /\ LET d == Backward(w_disc_grad, "fake")
       IN  /\ w_optim_log' =
                 Append(w_optim_log, OptimStep("disc", "fake", train_iter, d))
           /\ w_disc_grad' = ZeroGrad(d)
           /\ w_gen_grad' = ZeroGrad(w_gen_grad)
    /\ w_pc' = "gen"
    /\ UNCHANGED <<train_iter, w_trained, w_unroll>>

\* The generator step (lines 283-309) and the loop control of line 225:
\* backward of gen_loss reaches the generator through the discriminator, so
\* both hold gradients; world_gen_optim.step(), zero_grad() of both.
GenStep ==
    /\ UNCHANGED <<nonwvars, wconfig, rbvars>>
    /\ w_pc = "gen"
    /\ LET d == Backward(w_disc_grad, "gen")
           g == Backward(w_gen_grad, "gen")
       IN  /\ w_optim_log' =
                 Append(w_optim_log, OptimStep("gen", "gen", train_iter, g))
           /\ w_disc_grad' = ZeroGrad(d)
           /\ w_gen_grad' = ZeroGrad(g)
    /\ train_iter' = train_iter + 1
    /\ w_pc' = IF train_iter + 1 < world_train_iters THEN "real" ELSE "ppo"
    /\ UNCHANGED <<w_trained, w_unroll>>

\* return super()._ppo_update(data), line 200.
SuperPpoUpdate ==
    /\ UNCHANGED <<nonwvars, wconfig, rbvars>>
    /\ w_pc = "ppo"
    /\ w_pc' = "idle"
    /\ UNCHANGED <<train_iter, w_trained, w_unroll, w_disc_grad, w_gen_grad,
                   w_optim_log>>

NextW ==
    \/ UpdateReplayBuffer
    \/ TrainWorldSample
    \/ DiscReal
    \/ Unroll
    \/ DiscFake
    \/ GenStep
    \/ SuperPpoUpdate
SpecW == WInit /\ [][NextW]_vars

\* PPO updates keep occurring and each runs to its end.  UpdateReplayBuffer
\* is enabled exactly in the states of UpdateDue and always leaves them, so
\* its weak fairness is stated as []<>~UpdateDue.
UpdateDue == w_status = "ready" /\ w_pc = "idle"
TrainWorldSteps ==
    TrainWorldSample \/ DiscReal \/ Unroll \/ DiscFake \/ GenStep \/ SuperPpoUpdate
FairSpecW ==
    WInit /\ [][NextW]_vars /\ WF_vars(TrainWorldSteps) /\ []<>~UpdateDue

(***************************************************************************)
(* Returns and advantages (PPO._process_rewards, ppo.py:282-291, and the   *)
(* estimators it calls).  Arithmetic is exact: with gamma = g/DiscountSteps *)
(* and lambda = l/DiscountSteps every quantity is an integer numerator     *)
(* over a power of DiscountSteps that depends on its position only.  The   *)
(* arrays are element-wise in the actor axis; one actor's column is kept.  *)
(***************************************************************************)
RECURSIVE Pow(_, _)
Pow(b, e) == IF e = 0 THEN 1 ELSE b * Pow(b, e - 1)

RECURSIVE Sum(_)
Sum(s) == IF s = <<>> THEN 0 ELSE s[1] + Sum(Tail(s))

\* 1 - done
NotDone(d) == IF d THEN 0 ELSE 1

\* R_t = r_t + gamma * (1 - done_t) * R_{t+1}, started from the trailing
\* value estimate; the numerator over DiscountSteps ^ (T + 1 - t).
RECURSIVE ReturnNum(_, _, _, _, _)
ReturnNum(r, v, d, g, t) ==
    IF t = Len(r) + 1 THEN v[t]
    ELSE r[t] * Pow(DiscountSteps, Len(r) + 1 - t)
            + g * NotDone(d[t]) * ReturnNum(r, v, d, g, t + 1)

calc_returns(r, v, d, g) == [t \in 1..Len(r) |-> ReturnNum(r, v, d, g, t)]

\* delta_t = r_t + gamma * V_{t+1} * (1 - done_t) - V_t; the numerator over
\* DiscountSteps.
DeltaNum(r, v, d, g, t) ==
    DiscountSteps * r[t] + g * v[t + 1] * NotDone(d[t]) - DiscountSteps * v[t]

\* A_t = delta_t + gamma * lambda * (1 - done_t) * A_{t+1}; the numerator
\* over DiscountSteps ^ (2 * (T - t) + 1).
RECURSIVE AdvantageNum(_, _, _, _, _, _)
AdvantageNum(r, v, d, g, l, t) ==
    IF t = Len(r) + 1 THEN 0
    ELSE DeltaNum(r, v, d, g, t) * Pow(DiscountSteps, 2 * (Len(r) - t))
            + g * l * NotDone(d[t]) * AdvantageNum(r, v, d, g, l, t + 1)

calc_advantages(r, v, d, g, l) ==
    [t \in 1..Len(r) |-> AdvantageNum(r, v, d, g, l, t)]

\* Line 289: (A - A.mean()) / max(A.std(), 1e-5).  With the advantages
\* brought to the common denominator D = DiscountSteps ^ (2 * T - 1),
\* centred[t] / (T * D) is A_t - mean and sumsq / (T * (T * D)^2) is the
\* variance, so the standardised value is centred[t] / (T * D) over
\* max(sqrt(variance), 1e-5).
Standardise(a) ==
    LET n == Len(a)
        common == [t \in 1..n |-> a[t] * Pow(DiscountSteps, 2 * (t - 1))]
        centred == [t \in 1..n |-> n * common[t] - Sum(common)]
    IN  [centred |-> centred,
         sumsq |-> Sum([t \in 1..n |-> centred[t] * centred[t]])]

\* _process_rewards with the done flags withheld from the estimators.
_process_rewards_nodones(rewards, values, dones, g, l, scale) ==
    LET norm_rewards == [t \in 1..Len(rewards) |-> scale * rewards[t]]
        none == [t \in 1..Len(dones) |-> FALSE]
        np_advantages == calc_advantages(norm_rewards, values, none, g, l)
    IN  [rewards |-> norm_rewards,
         returns |-> calc_returns(norm_rewards, values, none, g),
         raw_advantages |-> np_advantages,
         advantages |-> Standardise(np_advantages)]

\* _process_rewards (lines 282-291); raw_advantages is np_advantages as
\* calc_advantages returned it (line 287).
_process_rewards(rewards, values, dones, g, l, scale) ==
    LET norm_rewards == [t \in 1..Len(rewards) |-> scale * rewards[t]]
        np_advantages == calc_advantages(norm_rewards, values, dones, g, l)
    IN  [rewards |-> norm_rewards,
         returns |-> calc_returns(norm_rewards, values, dones, g),
         raw_advantages |-> np_advantages,
         advantages |-> Standardise(np_advantages)]

GInit ==
    /\ horizon \in 1..MaxHorizon
    /\ ppo_iters = 1
    /\ batch_size = 1
    /\ num_actors = 1
    /\ model_save_interval = None
    /\ save_intermediate_models = FALSE
    /\ lr_scheduler = None
    /\ clip_decay = None
    /\ entropy_decay = None
    /\ InitAgent
    /\ RBIdle
    /\ MPIdle
    /\ WIdle
    /\ UIdle
    /\ g_rewards \in [1..horizon -> {0, MaxReward}]
    /\ g_values \in [1..(horizon + 1) -> 0..MaxValue]
    /\ g_dones \in [1..horizon -> BOOLEAN]
    /\ reward_discount \in 0..DiscountSteps
    /\ advantage_discount \in 0..DiscountSteps
    /\ reward_scale \in {1, MaxRewardScale}
    /\ g_pc = "new"
    /\ g_out = NoEstimate
    /\ g_prev = NoEstimate
    /\ g_changed = 0

nongvars == <<cfgvars, ppovars, auxvars, rbvars, mpvars, wvars,
             uvars>>

\* _process_sample hands the sample's column to _process_rewards
\* (lines 260-261).
ProcessRewards ==
    /\ UNCHANGED <<nongvars>>
    /\ g_pc = "new"
    /\ g_out' = _process_rewards(g_rewards, g_values, g_dones, reward_discount,
                                 advantage_discount, reward_scale)
    /\ g_pc' = "done"
    /\ UNCHANGED <<g_rewards, g_values, g_dones, reward_discount,
                   advantage_discount, reward_scale, g_prev, g_changed>>

\* The same column processed again with another value estimate after a
\* terminal step t.
ChangeValueAfterDone ==
    /\ UNCHANGED <<nongvars>>
    /\ g_pc = "done"
    /\ \E t \in 1..Len(g_dones), v \in 0..MaxValue :
          /\ g_dones[t]
          /\ v # g_values[t + 1]
          /\ g_values' = [g_values EXCEPT ![t + 1] = v]
          /\ g_changed' = t
    /\ g_prev' = g_out
    /\ g_out' = _process_rewards(g_rewards, g_values', g_dones, reward_discount,
                                 advantage_discount, reward_scale)
    /\ g_pc' = "changed"
    /\ UNCHANGED <<g_rewards, g_dones, reward_discount, advantage_discount,
                   reward_scale>>

NextG == ProcessRewards \/ ChangeValueAfterDone
SpecG == GInit /\ [][NextG]_vars

(***************************************************************************)
(* Model placement and minibatches of one PPO agent (ppo.py:157-181 and    *)
(* 293-324).  The stages of the training pass around _ppo_update are       *)
(* followed in Spec; here the pass is _ppo_update and the sample reset.    *)
(***************************************************************************)
\* The transfer made whether or not the placement differs.
NeedsTransfer_always(want) == TRUE

\* next(self.model.parameters()).is_cuda != want (lines 159 and 296).
NeedsTransfer(want) == model_cuda # want

\* self.model.cuda() if want else self.model.cpu() (lines 160 and 297).
Transfer(want) == want

\* len(data[0]): _process_sample concatenates sample.states[:-1], each of
\* num_actors rows (line 277).
DataLen == (Len(sample.states) - 1) * num_actors

\* torch.randperm(n): the permutations of 0..n-1.
Randperm(n) ==
    {p \in [1..n -> 0..(n - 1)] : \A i, j \in 1..n : i # j => p[i] # p[j]}

\* Every minibatch taking the first slice of the permutation.
BatchIdx_first(perm, k) == SliceTo(perm, batch_size)

\* rand_idx[loader_iter * batch_size : (loader_iter + 1) * batch_size]
\* (line 307).
BatchIdx(perm, k) == SliceTo(SliceFrom(perm, k * batch_size), batch_size)

UInit ==
    /\ horizon \in 1..MaxHorizon
    /\ ppo_iters \in 1..MaxPpoIters
    /\ batch_size \in 1..MaxBatchSize
    /\ num_actors \in 1..MaxActors
    /\ num_actors * horizon <= MaxData
    /\ model_save_interval = None
    /\ save_intermediate_models = FALSE
    /\ lr_scheduler = None
    /\ clip_decay = None
    /\ entropy_decay = None
    /\ InitAgent
    /\ RBIdle
    /\ MPIdle
    /\ WIdle
    /\ GIdle
    /\ cuda_eval \in BOOLEAN
    /\ cuda_train \in BOOLEAN
    /\ model_cuda \in BOOLEAN
    /\ u_pc = "idle"
    /\ u_epoch = 0
    /\ u_loader = 0
    /\ rand_idx = <<>>
    /\ u_minibatches = <<>>
    /\ u_steps = 0
    /\ u_last = [op |-> "new", cuda |-> model_cuda, moved |-> FALSE]

nonuvars == <<cfgvars, auxvars, rbvars, mpvars, wvars, gvars, frame,
              last_model_save_frame, pc, ppo_iter, loader_iter, calls, optSteps,
              saveCount, nanSeen, failed, dropped, trainCalls, usedRewards,
              actionFresh>>

\* _step (lines 157-181): the model is moved when its placement is not
\* cuda_eval, the forward pass runs, the step is appended, and the training
\* pass starts when due.
PlacedStep ==
    /\ UNCHANGED <<nonuvars>>
    /\ u_pc = "idle"
    /\ model_cuda' = IF NeedsTransfer(cuda_eval) THEN Transfer(cuda_eval)
                     ELSE model_cuda
    /\ u_last' = [op |-> "step", cuda |-> model_cuda',
                  moved |-> NeedsTransfer(cuda_eval)]
    /\ sample' = append_to_sample(sample, 0)
    /\ u_pc' = IF TrainDue(sample', horizon) THEN "update" ELSE "idle"
    /\ UNCHANGED <<cuda_eval, cuda_train, u_epoch, u_loader, rand_idx,
                   u_minibatches, u_steps>>

\* _ppo_update, lines 294-301.
PpoUpdateBegin ==
    /\ UNCHANGED <<nonuvars>>
    /\ u_pc = "update"
    /\ model_cuda' = IF NeedsTransfer(cuda_train) THEN Transfer(cuda_train)
                     ELSE model_cuda
    /\ u_last' = [op |-> "update", cuda |-> model_cuda',
                  moved |-> NeedsTransfer(cuda_train)]
    /\ u_epoch' = 0
    /\ u_loader' = 0
    /\ u_steps' = 0
    /\ u_minibatches' = <<>>
    /\ u_pc' = "epoch"
    /\ UNCHANGED <<sample, cuda_eval, cuda_train, rand_idx>>

\* Line 304: the permutation of an epoch.
EpochBegin ==
    /\ UNCHANGED <<nonuvars>>
    /\ u_pc = "epoch"
    /\ rand_idx' \in Randperm(DataLen)
    /\ u_loader' = 0
    /\ u_minibatches' = <<>>
    /\ u_pc' = "batch"
    /\ UNCHANGED <<sample, cuda_eval, cuda_train, model_cuda, u_epoch, u_steps,
                   u_last>>

\* One minibatch (lines 305-324) and the loop control of lines 303 and 305.
Minibatch ==
    /\ UNCHANGED <<nonuvars>>
    /\ u_pc = "batch"
    /\ u_minibatches' = Append(u_minibatches, BatchIdx(rand_idx, u_loader))
    /\ u_steps' = u_steps + 1
    /\ u_last' = [op |-> "optimize", cuda |-> model_cuda, moved |-> FALSE]
    /\ IF u_loader + 1 < Batches
       THEN /\ u_loader' = u_loader + 1
            /\ u_pc' = "batch"
            /\ UNCHANGED u_epoch
       ELSE /\ u_loader' = 0
            /\ u_epoch' = u_epoch + 1
            /\ u_pc' = IF u_epoch + 1 < ppo_iters THEN "epoch" ELSE "finish"
    /\ UNCHANGED <<sample, cuda_eval, cuda_train, model_cuda, rand_idx>>

\* _train, lines 200-201: nothing to save, the sample is renewed.
FinishTrain ==
    /\ UNCHANGED <<nonuvars>>
    /\ u_pc = "finish"
    /\ sample' = create_new_sample
    /\ u_pc' = "idle"
    /\ UNCHANGED <<cuda_eval, cuda_train, model_cuda, u_epoch, u_loader,
                   rand_idx, u_minibatches, u_steps, u_last>>

NextU ==
    \/ PlacedStep
    \/ PpoUpdateBegin
    \/ EpochBegin
    \/ Minibatch
    \/ FinishTrain
SpecU == UInit /\ [][NextU]_vars

(***************************************************************************)
(* Properties of the PPO agent (checked under Spec).                       *)
(***************************************************************************)
InTrain == pc \in {"train", "process", "loss", "optimize", "save", "reset", "raised"}

Last(s) == s[Len(s)]

\* C1: as long as no training pass has failed, the agent is inside a training
\* pass exactly when len(sample.rewards) has reached horizon: during the pass
\* the sample holds exactly horizon rewards and dones and horizon + 1 states;
\* between two _step calls len(sample.rewards) < horizon; and when the _step
\* call that trained has returned, the sample is empty.
C1_FlushAtHorizon ==
    ~failed =>
        /\ InTrain =>
              /\ Len(sample.rewards) = horizon
              /\ Len(sample.dones) = horizon
              /\ Len(sample.states) = horizon + 1
              /\ trainCalls # <<>> /\ Last(trainCalls) = calls
        /\ pc = "idle" => Len(sample.rewards) < horizon
        /\ (pc = "idle" /\ trainCalls # <<>> /\ Last(trainCalls) = calls)
              => sample = create_new_sample

\* A training pass has completed and its _step call has returned.
C1_Witness ==
    /\ pc = "idle"
    /\ ~failed
    /\ trainCalls # <<>>
    /\ Last(trainCalls) = calls
    /\ sample = create_new_sample
    /\ horizon > 1

\* C2: in every reachable state a non-empty sample has one reward and one done
\* fewer than states, and as many probs, values and actions as states.
C2_SampleLengths ==
    sample # create_new_sample =>
        /\ Len(sample.rewards) = Len(sample.dones)
        /\ Len(sample.rewards) = Len(sample.states) - 1
        /\ Len(sample.states) = Len(sample.probs)
        /\ Len(sample.states) = Len(sample.values)
        /\ Len(sample.states) = Len(sample.actions)

\* Flush time, in a run in which drop_collected_steps was called before.
C2_Witness ==
    /\ pc = "train"
    /\ dropped
    /\ Len(sample.states) = horizon + 1
    /\ Len(sample.rewards) = horizon

\* C3: with no drop_collected_steps and no failed pass, consecutive training
\* passes are exactly horizon _step calls apart, and the reward handed to every
\* _step call after the first is in a training pass or still in the sample.
C3_TrainEveryHorizonSteps ==
    (~failed /\ ~dropped) =>
        /\ \A i \in 2..Len(trainCalls) : trainCalls[i] - trainCalls[i - 1] = horizon
        /\ pc = "idle" =>
              \A c \in 2..calls : c \in usedRewards \cup Range(sample.rewards)

\* C10: once the total loss of a minibatch is NaN or infinite the agent is at
\* the raise, no optimizer step was made for that minibatch, and the only thing
\* that follows is the exception leaving _step: no optimizer step, no save, no
\* change of the loop counters and no reset of the sample.
C10_NanStopsPass ==
    /\ [](nanSeen => (pc = "raised" /\ optSteps = ppo_iter * Batches + loader_iter))
    /\ [][nanSeen => (/\ pc' = "idle"
                      /\ failed'
                      /\ UNCHANGED <<sample, optSteps, saveCount,
                                     last_model_save_frame, ppo_iter,
                                     loader_iter>>)]_vars

\* A NaN loss in a minibatch that follows a completed one.
C10_Witness ==
    /\ nanSeen
    /\ pc = "raised"
    /\ optSteps > 0

(***************************************************************************)
(* Properties of the replay buffer (checked under SpecRB).                 *)
(***************************************************************************)
\* The row of slot t before a push (a buffer never pushed to holds no
\* arrays; push allocates zeros first).
OldRow(f, t) == IF rb_alloc THEN rb_arrays[f][t] ELSE ZeroRow(f)

\* What a successful push of L <= capacity time-steps does.
C4_PushStep ==
    (rb_op'.op = "push" /\ rb_op'.ok /\ rb_op'.len <= capacity) =>
        LET L   == rb_op'.len
            k   == capacity - rb_index
            rem == L - k
        IN  IF rb_index + L <= capacity
            THEN /\ rb_index' = rb_index + L
                 /\ full_loop' = full_loop
                 /\ \A f \in FieldSet, t \in 0..(capacity - 1) :
                       rb_arrays'[f][t] =
                          IF rb_index <= t /\ t < rb_index + L
                          THEN Row(f, rb_total + (t - rb_index) + 1)
                          ELSE OldRow(f, t)
            ELSE /\ rb_index' = rem
                 /\ full_loop' = TRUE
                 /\ \A f \in FieldSet, t \in 0..(capacity - 1) :
                       rb_arrays'[f][t] =
                          IF rb_index <= t THEN Row(f, rb_total + (t - rb_index) + 1)
                          ELSE IF t < rem THEN Row(f, rb_total + k + t + 1)
                          ELSE OldRow(f, t)

\* Each of the most recent `capacity` time-steps is in slot k mod capacity
\* (k counted from 0; the model numbers the time-steps from 1).
C4_SlotOfStep ==
    \A k \in 1..rb_total :
        k > rb_total - capacity =>
            \A f \in FieldSet : rb_arrays[f][(k - 1) % capacity] = Row(f, k)

\* C4: a successful push of L <= capacity time-steps writes them to slots
\* [index, index + L) and advances index by L when they fit, and otherwise
\* fills [index, capacity), writes the rest from slot 0, leaves index at the
\* number of time-steps written from slot 0 and sets full_loop; so the k-th
\* time-step pushed, while among the latest `capacity`, is in slot k mod
\* capacity.
C4_PushWraps == [][C4_PushStep]_vars /\ []C4_SlotOfStep

\* A push that wrapped around with time-steps on both sides of the end.
C4_Witness ==
    /\ rb_op.op = "push"
    /\ rb_op.ok
    /\ full_loop
    /\ rb_op.len <= capacity
    /\ 0 < rb_index
    /\ rb_index < rb_op.len

\* C5: once more than `capacity` time-steps were pushed, full_loop is true
\* and len(buffer) equals capacity.
C5_LenAfterWrap ==
    rb_total > capacity => (full_loop /\ RBLen = capacity)

\* The window of a column of the batch: slots [h, h + hz).
InWritten(col, hz) == 0 <= col.h /\ col.h + hz <= rb_index

\* C6: a batch sampled from a buffer that has not wrapped consists of columns
\* that are runs of `horizon` consecutive slots of one actor inside [0, index),
\* and sample changes nothing of the buffer.
C6_SampleInsideWritten ==
    /\ []((rb_op.op = "sample" /\ rb_op.ok /\ ~full_loop) =>
            \A ri \in 1..Len(rb_batch) :
               /\ InWritten(rb_batch[ri], rb_op.horizon)
               /\ \A f \in FieldSet, i \in 1..rb_op.horizon :
                     rb_batch[ri].cols[f][i] =
                        rb_arrays[f][rb_batch[ri].h + i - 1][rb_batch[ri].r])
    /\ [][rb_op'.op = "sample" =>
            UNCHANGED <<capacity, rb_alloc, rb_arrays, rb_index, full_loop>>]_vars

\* A two-slot window of the second actor, sampled from a partly filled buffer.
C6_Witness ==
    /\ rb_op.op = "sample"
    /\ rb_op.ok
    /\ ~full_loop
    /\ rb_index < capacity
    /\ Len(rb_batch) = 1
    /\ rb_op.horizon = 2
    /\ rb_batch[1].h = 0
    /\ rb_batch[1].r = 2

\* C7: with N time-steps pushed into a buffer that has not wrapped, sample
\* with any horizon in 1..N returns a batch, and every column of it is a run
\* of consecutive pushed time-steps of one actor, never a zero-initialised slot.
C7_RoundTrip ==
    (/\ rb_op.op = "sample"
     /\ ~full_loop
     /\ rb_index = rb_total
     /\ 1 <= rb_op.horizon
     /\ rb_op.horizon <= rb_total) =>
        /\ rb_op.ok
        /\ \A ri \in 1..Len(rb_batch) :
              \A f \in FieldSet, i \in 1..rb_op.horizon :
                 rb_batch[ri].cols[f][i] =
                    Cell(f, rb_batch[ri].h + i, rb_batch[ri].r)

\* C8: a batch sampled from a buffer that has wrapped has no column whose
\* window holds slots on both sides of the write pointer; every column is a
\* run of consecutive time-steps.
C8_NoSpanAfterWrap ==
    (rb_op.op = "sample" /\ rb_op.ok /\ full_loop) =>
        \A ri \in 1..Len(rb_batch) :
           /\ ~ (rb_batch[ri].h < rb_index
                 /\ rb_index < rb_batch[ri].h + rb_op.horizon)
           /\ \A f \in FieldSet, i \in 2..rb_op.horizon :
                 rb_batch[ri].cols[f][i].step = rb_batch[ri].cols[f][i - 1].step + 1

\* C9: a push that raises leaves index, full_loop and the arrays as they were.
C9_FailedPushNoEffect ==
    [][(rb_op'.op = "push" /\ ~rb_op'.ok) =>
          UNCHANGED <<rb_alloc, rb_arrays, rb_index, full_loop>>]_vars

(***************************************************************************)
(* Checkpointing (checked under Spec).                                     *)
(***************************************************************************)
\* The name line 427 gives a checkpoint written at frame fr.
C11_Name(fr) ==
    IF save_intermediate_models THEN <<model_save_tag, fr>> ELSE <<model_save_tag>>

C11_Saves ==
    /\ model_save_interval = None => saves = <<>>
    /\ saves # <<>> => last_model_save_frame = Last(saves).frame
    /\ \A i \in 2..Len(saves) :
          saves[i].frame - saves[i - 1].frame >= ValueOf(model_save_interval)
    /\ \A i \in 1..Len(saves) : saves[i].name = C11_Name(saves[i].frame)
    /\ save_intermediate_models =>
          \A i, j \in 1..Len(saves) : i # j => saves[i].name # saves[j].name

C11_SaveStep ==
    pc = "save" =>
        IF /\ model_save_interval # None
           /\ frame - last_model_save_frame >= ValueOf(model_save_interval)
        THEN /\ saves' = Append(saves, [frame |-> frame, name |-> C11_Name(frame)])
             /\ last_model_save_frame' = frame
        ELSE UNCHANGED <<saves, last_model_save_frame>>

C18_EntropyDecayed ==
    pc = "optimize" =>
        /\ clip_decay # None =>
              /\ lossCoef.value_clip = ValueOf(clip_decay)
              /\ lossCoef.policy_clip = ValueOf(clip_decay)
        /\ entropy_decay # None =>
              lossCoef.entropy_bonus = ValueOf(entropy_decay)

(***************************************************************************)
(* Properties of MultiplayerEnvTrainer (checked under SpecMP, termination  *)
(* of train under FairSpecMP).                                             *)
(***************************************************************************)
C12_Selection ==
    /\ mp_frame > 0 => selected_algs # None
    /\ selected_algs # None => ValueOf(selected_algs) \in Choices
    /\ \A d \in mp_durations :
          /\ d >= selection_train_frames
          /\ d < selection_train_frames + num_envs

C12_Redraw ==
    mp_frame' # mp_frame =>
        IF \/ selected_algs = None
           \/ mp_frame - ValueOf(selection_change_frame) >= selection_train_frames
        THEN /\ selection_change_frame' = Some(mp_frame)
             /\ selected_algs' \in {Some(s) : s \in Choices}
        ELSE UNCHANGED <<selected_algs, selection_change_frame>>

C13_Fresh ==
    /\ \A i \in 1..population_size :
          (selected_algs = None \/ i \notin Members(ValueOf(selected_algs)))
              => alg_samples[i] = create_new_sample
    /\ selected_algs # None =>
          \A i \in Members(ValueOf(selected_algs)) :
              Range(alg_samples[i].states) \cup Range(alg_samples[i].rewards)
                  \subseteq {ValueOf(selection_change_frame)}
    /\ \A periods \in mp_passes : periods = {ValueOf(selection_change_frame)}
    /\ ~ mp_stale

C13_Entering ==
    selection_change_frame' # selection_change_frame =>
        \A i \in Members(ValueOf(selected_algs')) :
            alg_samples'[i] = append_to_sample(create_new_sample, mp_frame)

\* C13: a reselection drops the collected steps of every outgoing agent, so
\* an agent that is not selected holds an empty sample, an agent entering a
\* selection starts from an empty sample (after its first step it holds that
\* step only), and the data of every training pass comes from one selection
\* period.
C13_DropOnReselect == []C13_Fresh /\ [][C13_Entering]_vars

\* After a reselection a training pass ran while an agent selected earlier
\* sits outside the selection.
C13_Witness ==
    /\ mp_durations # {}
    /\ mp_passes # {}
    /\ \E i \in 1..population_size :
          /\ i \notin Members(ValueOf(selected_algs))
          /\ alg_rewards[i] # None

C14_Returned ==
    (mp_pc = "returned" /\ mp_entry < max_frames) =>
        /\ max_frames <= mp_frame
        /\ mp_frame < max_frames + num_envs

C14_Logs ==
    mp_pc \in {"training", "returned"} =>
        \A i \in 1..Len(mp_logs) :
            mp_logs[i] = (i = Len(mp_logs) /\ mp_pc = "returned")

\* C14: train(max_frames) entered with frame < max_frames terminates, passes
\* always_log = FALSE to every step but the last and TRUE to the last, and
\* returns with max_frames <= frame < max_frames + num_envs.
C14_TrainTerminates ==
    /\ [](C14_Returned /\ C14_Logs)
    /\ (mp_pc = "training") ~> (mp_pc = "returned")

\* train has returned after three steps and overshot max_frames.
C14_Witness ==
    /\ mp_pc = "returned"
    /\ mp_entry < max_frames
    /\ Len(mp_logs) = 3
    /\ mp_frame > max_frames

\* C15: with population_size < num_players the construction fails and no
\* step ever runs on the trainer; with population_size >= num_players the
\* check passes.
C15_PopulationAssert ==
    /\ population_size < num_players =>
          /\ mp_status = "failed"
          /\ mp_frame = 0
          /\ selected_algs = None
          /\ mp_pc = "idle"
    /\ population_size >= num_players => mp_status = "ready"

\* A construction with one agent for two player slots has failed.
C15_Witness ==
    /\ population_size = 1
    /\ num_players = 2
    /\ mp_status = "failed"

(***************************************************************************)
(* Properties of MPPO (checked under SpecW).                               *)
(***************************************************************************)
\* C16: an MPPO built with replay_buffer_size below
\* world_train_iters * world_train_rollouts * world_train_horizon, or a PPO
\* built with a constraint other than None, 'clip', 'clip_mod', fails at
\* construction: nothing is ever pushed, and no update or world training
\* starts; every other construction succeeds.
C16_ConstructionAsserts ==
    IF capacity < world_train_iters * world_train_rollouts * world_train_horizon
       \/ constraint \notin {None, Some("clip"), Some("clip_mod")}
    THEN /\ w_status = "failed"
         /\ w_pc = "idle"
         /\ ~ rb_alloc
         /\ rb_total = 0
    ELSE w_status = "ready"

\* A construction with a good constraint has failed on the buffer size.
C16_Witness ==
    /\ capacity = 3
    /\ WorldBatch = 4
    /\ constraint = Some("clip")
    /\ w_status = "failed"

\* C19: at every step of the unroll the generator is called with the action
\* sampled from the current policy at that step, the one that is given to
\* the discriminator and stored for the generator phase.
C19_GeneratorGetsSampledAction ==
    \A k \in 1..Len(w_unroll) :
        /\ w_unroll[k].gen = w_unroll[k].disc
        /\ w_unroll[k].gen = w_unroll[k].stored

\* C20: an MPPO._ppo_update runs a world-model training pass, between the
\* push and the PPO optimisation, exactly when the replay buffer has
\* received more than
\* world_train_iters * world_train_rollouts * world_train_horizon time-steps.
C20_WorldTrainingOnceFilled ==
    w_pc = "ppo" => (w_trained <=> rb_total > WorldBatch)

(***************************************************************************)
(* Properties of the estimators (checked under SpecG).                     *)
(***************************************************************************)
\* C17: when done_t holds, changing the value estimate V_{t+1} to any other
\* value leaves the return R_t and the advantage A_t (before
\* standardisation) as they were.
C17_TerminalIsolation ==
    g_pc = "changed" =>
        /\ g_out.returns[g_changed] = g_prev.returns[g_changed]
        /\ g_out.raw_advantages[g_changed] = g_prev.raw_advantages[g_changed]

\* V_{t+1} was changed after a terminal step t that is not the last of the
\* column, with non-zero discounts, and the estimates of step t + 1 moved.
C17_Witness ==
    /\ g_pc = "changed"
    /\ g_changed < Len(g_rewards)
    /\ reward_discount > 0
    /\ advantage_discount > 0
    /\ g_out.raw_advantages[g_changed + 1] # g_prev.raw_advantages[g_changed + 1]

\* C27: train(max_frames) entered with frame >= max_frames makes no step:
\* when it returns, no step was invoked and frame is what it was on entry.
C27_NoStepWhenBudgetReached ==
    (mp_pc = "returned" /\ mp_entry >= max_frames) =>
        /\ mp_logs = <<>>
        /\ mp_frame = mp_entry

(***************************************************************************)
(* World-model training phases (checked under SpecW).                      *)
(***************************************************************************)
\* The k-th optimizer step of a world training pass.
C21_Expected(k) ==
    LET ph == <<"real", "fake", "gen">>[((k - 1) % 3) + 1]
    IN  [optim |-> IF ph = "gen" THEN "gen" ELSE "disc",
         phase |-> ph,
         iter |-> (k - 1) \div 3,
         grad |-> {ph}]

\* C21: every iteration of _train_world steps the discriminator optimizer
\* on real transitions, then the discriminator optimizer on generated
\* transitions, then the generator optimizer, so per iteration the
\* discriminator optimizer is stepped twice and the generator optimizer
\* once, each in its own phases only; both gradients are zero after every
\* phase, so each optimizer step uses the gradient of its own phase alone.
C21_GanPhases ==
    /\ \A k \in 1..Len(w_optim_log) : w_optim_log[k] = C21_Expected(k)
    /\ w_disc_grad = {} /\ w_gen_grad = {}
    /\ w_pc = "real" => Len(w_optim_log) = 3 * train_iter
    /\ w_pc = "fake" => Len(w_optim_log) = 3 * train_iter + 1
    /\ w_pc = "gen" => Len(w_optim_log) = 3 * train_iter + 2
    /\ w_pc = "ppo" =>
          Len(w_optim_log) = IF w_trained THEN 3 * world_train_iters ELSE 0

\* A world training pass of two iterations has ended.
C21_Witness ==
    /\ w_pc = "ppo"
    /\ world_train_iters = 2
    /\ Len(w_optim_log) = 6

(***************************************************************************)
(* Minibatches and model placement (checked under SpecU).                  *)
(***************************************************************************)
\* The sample indexes of the k-th minibatch of the current epoch.
C22_Used(k) == Range(u_minibatches[k])

\* The epoch whose minibatches are in u_minibatches has run to its end.
EpochDone == u_pc \in {"epoch", "finish"} /\ u_minibatches # <<>>

\* C22: every epoch runs max(1, floor(num_actors * horizon / batch_size))
\* minibatches with one optimizer step each; the k-th minibatch is the k-th
\* slice of batch_size positions of the epoch's permutation of the batch
\* indexes, so no index is in two minibatches of an epoch, and a pass makes
\* ppo_iters times that many optimizer steps.
C22_MinibatchesPerEpoch ==
    LET n == num_actors * horizon
        batches == IF n \div batch_size >= 1 THEN n \div batch_size ELSE 1
    IN  /\ u_pc = "batch" =>
              /\ rand_idx \in Randperm(n)
              /\ Len(u_minibatches) = u_loader
              /\ u_loader < batches
              /\ u_steps = u_epoch * batches + u_loader
        /\ \A k \in 1..Len(u_minibatches) :
              /\ u_minibatches[k] =
                    [i \in 1..Min(batch_size, n - (k - 1) * batch_size) |->
                        rand_idx[(k - 1) * batch_size + i]]
              /\ Cardinality(C22_Used(k)) = Len(u_minibatches[k])
              /\ \A j \in 1..Len(u_minibatches) :
                    j # k => C22_Used(j) \cap C22_Used(k) = {}
        /\ EpochDone =>
              /\ Len(u_minibatches) = batches
              /\ u_steps = u_epoch * batches
        /\ u_pc = "finish" => u_steps = ppo_iters * batches

\* The second epoch of a pass has run its two minibatches of two indexes.
C22_Witness ==
    /\ u_pc = "finish"
    /\ u_epoch = 2
    /\ Len(u_minibatches) = 2
    /\ batch_size = 2

C24_Placement ==
    /\ u_last.op = "step" => u_last.cuda = cuda_eval
    /\ u_last.op \in {"update", "optimize"} => u_last.cuda = cuda_train
    /\ u_last.op \in {"step", "update", "optimize"} => model_cuda = u_last.cuda

C24_Lazy ==
    /\ u_pc = "idle" => (u_last'.moved <=> model_cuda # cuda_eval)
    /\ u_pc = "update" => (u_last'.moved <=> model_cuda # cuda_train)
    /\ model_cuda' # model_cuda => u_last'.moved
    /\ (cuda_eval = cuda_train /\ model_cuda = cuda_eval) =>
          (model_cuda' = model_cuda /\ ~ u_last'.moved)

\* C24: _step moves the model only when its placement differs from
\* cuda_eval and _ppo_update only when it differs from cuda_train; the
\* forward pass of _step runs with placement cuda_eval and the optimisation
\* with placement cuda_train; with cuda_eval = cuda_train no transfer is made
\* once the placement matches.
C24_LazyPlacement == []C24_Placement /\ [][C24_Lazy]_vars

\* A model placed for training was moved back for the next _step, with
\* cuda_eval and cuda_train different.
C24_Witness ==
    /\ cuda_eval # cuda_train
    /\ u_last = [op |-> "step", cuda |-> cuda_eval, moved |-> TRUE]
    /\ u_steps > 0

\* C25: in every epoch each of the num_actors * horizon samples is in
\* exactly one minibatch, whatever batch_size is.
C25_EverySampleUsed ==
    EpochDone =>
        \A s \in 0..(num_actors * horizon - 1) :
            Cardinality({k \in 1..Len(u_minibatches) : s \in C22_Used(k)}) = 1

\* C26: for a constructed MPPO whose updates keep occurring (none raises),
\* world-model training runs again and again, also after the replay buffer
\* has wrapped.
C26_WorldTrainingRecurs ==
    []<>(w_status # "ready" \/ w_pc = "raised" \/ w_pc = "world")

\* C23: a training pass advances every configured decay scheduler exactly
\* once with the current frame count, then builds TrainingData from the
\* sample, then runs all ppo_iters epochs of optimisation, then the
\* checkpoint check, then resets the sample buffer; between the first and
\* the last of these no sample is appended and the frame count stays, and
\* the actions of the triggering _step were computed before any parameter
\* update of the pass.
C23_Schedulers == <<lr_scheduler, clip_decay, entropy_decay>>
C23_Counts == <<decaySteps.lr, decaySteps.clip, decaySteps.entropy>>
C23_Advanced ==
    \A i \in 1..3 :
        IF C23_Schedulers[i] = None THEN C23_Counts[i] = 0
        ELSE /\ C23_Schedulers[i] = Some(DecayValue(frame))
             /\ C23_Counts[i] = Len(trainCalls)
C23_BeforeFirstUpdate ==
    \/ pc \in {"train", "process"}
    \/ pc \in {"loss", "raised"} /\ ppo_iter = 0 /\ loader_iter = 0
C23_State ==
    /\ pc \in {"process", "loss", "optimize", "raised", "save", "reset"}
          => C23_Advanced
    /\ C23_BeforeFirstUpdate => actionFresh
    /\ pc \in {"save", "reset"} => optSteps = ppo_iters * Batches
C23_Order ==
    /\ pc = "train" => pc' = "process"
    /\ pc = "process" =>
          /\ pc' = "loss"
          /\ Range(sample.rewards) \subseteq usedRewards'
    /\ pc = "loss" => pc' \in {"optimize", "raised"}
    /\ pc = "optimize" => pc' \in {"loss", "save"} /\ optSteps' = optSteps + 1
    /\ pc = "save" => pc' = "reset"
    /\ pc = "reset" => pc' = "idle" /\ sample' = create_new_sample
    /\ pc # "idle" =>
          /\ frame' = frame
          /\ calls' = calls
          /\ pc # "reset" => sample' = sample
          /\ actionFresh' => actionFresh
    /\ pc \notin {"idle", "train"} =>
          /\ C23_Schedulers' = C23_Schedulers
          /\ C23_Counts' = C23_Counts
C23_TrainingPassOrder == []C23_State /\ [][C23_Order]_vars
C23_Witness ==
    /\ pc = "reset"
    /\ lr_scheduler # None /\ clip_decay # None /\ entropy_decay # None
    /\ Len(trainCalls) = 2
    /\ ppo_iters = 2 /\ optSteps = 2 * Batches
    /\ saveCount = 2

=============================================================================
